---- MODULE Spec2Model ----
(***************************************************************************)
(* The hypothesis tests of src/src/stats_functions.py (Cochran's Q, the    *)
(* G-test and its pairwise variant, McNemar's test) and the Chi-Square     *)
(* goodness-of-fit test of src/stats_functions.py, called by an analysis   *)
(* script on one table (a pandas DataFrame) that the script owns.          *)
(*                                                                         *)
(* Spec is the script calling the five tests in any order.                 *)
(* SpecCategorical is the analysis of the categorical answers, the ordinal *)
(* columns converted to a categorical dtype by convert_to_categorical of   *)
(* src/src/helper_functions.py.  SpecSignificance applies the significance *)
(* verdict to p-values of the caller's choice, next to the tests that      *)
(* print it.                                                               *)
(* SpecEpsilon computes the G statistic on columns whose categories occur  *)
(* ten times or more.  SpecLoader is load_ordinal_columns of               *)
(* src/helper_functions.py on a file system, SpecQuiz is                   *)
(* create_answer_matrix of src/src/helper_functions.py on quiz tables, and *)
(* SpecInput is the loop of get_user_input of                              *)
(* src/.ipynb_checkpoints/helper_functions-checkpoint.py.                  *)
(*                                                                         *)
(* Numbers.  Counts are integers.  A quotient of two integers (a float in  *)
(* the program) is kept exactly, as a fraction in lowest terms             *)
(* [num, den]; den = 0 stands for the IEEE results of a division by zero   *)
(* (0/0 = NaN, x/0 = +-inf).  The G statistic is a sum of logarithms; it   *)
(* is kept as the collection of its terms, and its sign is decided by an   *)
(* exact comparison of integer powers.  The values of the chi-square       *)
(* distribution functions of scipy are kept as the name of the function    *)
(* and its arguments.                                                      *)
(***************************************************************************)
EXTENDS Integers, Sequences, FiniteSets, TLC

VARIABLES
    df,     \* the caller's table: column name -> [dtype, values]
    df0,    \* the table as the caller first supplied it (never changes)
    last,   \* the most recent call: operation, arguments, outcome, output
    env     \* what the helper functions work with outside the table: the
            \* generator script and the JSON file, the console and the global
            \* user_number

vars == <<df, df0, last, env>>

(***************************************************************************)
(* Bounds of the model.                                                    *)
(***************************************************************************)
\* the largest number of rows (subjects) of a table
MaxRows == 4

(***************************************************************************)
(* Arithmetic.                                                             *)
(***************************************************************************)
Abs(x) == IF x < 0 THEN -x ELSE x

Sign(x) == IF x < 0 THEN -1 ELSE IF x = 0 THEN 0 ELSE 1

RECURSIVE GCD(_, _)
GCD(a, b) == IF b = 0 THEN a ELSE GCD(b, a % b)

RECURSIVE Pow(_, _)
Pow(x, n) == IF n = 0 THEN 1 ELSE x * Pow(x, n - 1)

RECURSIVE SumSeq(_)
SumSeq(s) == IF s = <<>> THEN 0 ELSE Head(s) + SumSeq(Tail(s))

\* numpy's true division n / d of two integers, exactly
Frac(n, d) ==
    IF d = 0 THEN [num |-> Sign(n), den |-> 0]
    ELSE LET g == GCD(Abs(n), Abs(d))
             s == IF d < 0 THEN -1 ELSE 1
         IN  [num |-> (s * n) \div g, den |-> (s * d) \div g]

IsNaN(q) == q.den = 0 /\ q.num = 0

\* arithmetic of two floats that are numbers (den > 0)
FAdd(a, b) == Frac(a.num * b.den + b.num * a.den, a.den * b.den)

FSub(a, b) == Frac(a.num * b.den - b.num * a.den, a.den * b.den)

FMul(a, b) == Frac(a.num * b.num, a.den * b.den)

FDiv(a, b) == Frac(a.num * b.den, a.den * b.num)

FLess(a, b) == a.num * b.den < b.num * a.den

FAbs(a) == [num |-> Abs(a.num), den |-> a.den]

RECURSIVE FSum(_)
FSum(s) == IF s = <<>> THEN Frac(0, 1) ELSE FAdd(Head(s), FSum(Tail(s)))

FracSign(q) == Sign(q.num)

(***************************************************************************)
(* Tables.  A column is [dtype, values]; dtype "int64" holds integers and  *)
(* dtype "bool" holds booleans (numpy reads True as 1 and False as 0).     *)
(***************************************************************************)
QuestionColumns == <<"Q1", "Q2">>

\* the six items of the table of two subjects [[1,1,1,0,0,0],[1,0,1,0,1,0]]
ScenarioColumns == <<"Q1", "Q2", "Q3", "Q4", "Q5", "Q6">>

ColumnOrder ==
    ScenarioColumns \o <<"image_correct", "sound_correct", "image_high", "sound_high">>

DerivedColumns == {"image_correct", "sound_correct", "image_high", "sound_high"}

\* the columns of a table, in the table's column order
Columns(t) == SelectSeq(ColumnOrder, LAMBDA c : c \in DOMAIN t)

\* len(df)
NumRows(t) == Len(t[QuestionColumns[1]].values)

\* the cell of column c in row i, as the number numpy computes with
Cell(t, c, i) ==
    IF t[c].dtype = "bool" THEN (IF t[c].values[i] THEN 1 ELSE 0) ELSE t[c].values[i]

\* the rows a caller may supply: Q1 holds one of three codes, Q2 is binary
RowTypes == {<<a, b>> : a \in {0, 1, 2}, b \in {0, 1}}

RowKey(r) == 2 * r[1] + r[2]

\* the tables a caller may supply: up to MaxRows subjects, listed in ascending
\* order of their response pattern
InputRows ==
    UNION {{rs \in [1..n -> RowTypes] :
                \A i \in 1..(n - 1) : RowKey(rs[i]) <= RowKey(rs[i + 1])} : n \in 1..MaxRows}

TableOf(rs) ==
    [c \in {QuestionColumns[j] : j \in 1..Len(QuestionColumns)} |->
        [dtype |-> "int64",
         values |-> [i \in 1..Len(rs) |->
                        rs[i][CHOOSE j \in 1..Len(QuestionColumns) : QuestionColumns[j] = c]]]]

(***************************************************************************)
(* The outcome of a call.  status is "returned" or the name of the         *)
(* exception raised; ret is the tuple of returned values; out is the       *)
(* sequence of printed items <<label, value>>.                             *)
(***************************************************************************)
NoCall == [op |-> "none", args |-> <<>>, status |-> "none", ret |-> <<>>, out |-> <<>>]

Raised(exc) == [status |-> exc, ret |-> <<>>, out |-> <<>>]

Printed(out, label) == out[CHOOSE i \in 1..Len(out) : out[i][1] = label][2]

HasPrinted(out, label) == \E i \in 1..Len(out) : out[i][1] = label

\* scipy.stats.chi2.sf(x, dof) and 1 - scipy.stats.chi2.cdf(x, dof)
Chi2Sf(x, dof) == [fn |-> "chi2.sf", x |-> x, dof |-> dof]

OneMinusChi2Cdf(x, dof) == [fn |-> "1 - chi2.cdf", x |-> x, dof |-> dof]

(***************************************************************************)
(* Frequencies of a categorical column.                                    *)
(***************************************************************************)
Count(values, v) == Cardinality({i \in 1..Len(values) : values[i] = v})

FirstIndex(values, v) ==
    CHOOSE i \in 1..Len(values) : values[i] = v /\ \A j \in 1..(i - 1) : values[j] # v

\* the labels S by descending frequency, labels of equal frequency in order of
\* first appearance
RECURSIVE ByFrequency(_, _)
ByFrequency(values, S) ==
    IF S = {} THEN <<>>
    ELSE LET top == CHOOSE v \in S : \A w \in S \ {v} :
                        \/ Count(values, v) > Count(values, w)
                        \/ /\ Count(values, v) = Count(values, w)
                           /\ FirstIndex(values, v) < FirstIndex(values, w)
         IN  <<top>> \o ByFrequency(values, S \ {top})

\* the declared categories S by descending frequency, categories of equal
\* frequency in the order of their declaration
RECURSIVE ByFrequencyOfCategories(_, _, _)
ByFrequencyOfCategories(values, categories, S) ==
    IF S = {} THEN <<>>
    ELSE LET pos(v) == CHOOSE i \in 1..Len(categories) : categories[i] = v
             top == CHOOSE v \in S : \A w \in S \ {v} :
                        \/ Count(values, v) > Count(values, w)
                        \/ /\ Count(values, v) = Count(values, w)
                           /\ pos(v) < pos(w)
         IN  <<top>> \o ByFrequencyOfCategories(values, categories, S \ {top})

\* variant of value_counts: one entry per label that occurs, whatever the dtype
value_counts_occurring(column) ==
    LET index == ByFrequency(column.values,
                             {column.values[i] : i \in 1..Len(column.values)})
    IN  [index  |-> index,
         values |-> [i \in 1..Len(index) |-> Count(column.values, index[i])]]

\* Series.value_counts(): index = the labels, values = their frequencies.  A
\* column that is not of a categorical dtype has one entry per label that
\* occurs; a column of dtype "category" has one entry per declared category,
\* the categories that never occur with frequency 0
value_counts(column) ==
    LET index == IF column.dtype = "category"
                 THEN ByFrequencyOfCategories(
                          column.values, column.categories,
                          {column.categories[i] : i \in 1..Len(column.categories)})
                 ELSE ByFrequency(column.values,
                                  {column.values[i] : i \in 1..Len(column.values)})
    IN  [index  |-> index,
         values |-> [i \in 1..Len(index) |-> Count(column.values, index[i])]]

InIndex(vc, label) == \E i \in 1..Len(vc.index) : vc.index[i] = label

\* vc.loc[labels].values, defined when every label is in the index (pandas
\* raises KeyError otherwise)
Loc(vc, labels) ==
    [k \in 1..Len(labels) |->
        vc.values[CHOOSE i \in 1..Len(vc.index) : vc.index[i] = labels[k]]]

(***************************************************************************)
(* The G statistic 2 * np.sum(observed * np.log(observed / expected)),     *)
(* epsilon = 1e-10 added to every observed and every expected count.  A     *)
(* count with epsilon added is [value, epsilon]: the count and what was    *)
(* added to it.                                                            *)
(***************************************************************************)
\* variant of Epsilon: epsilon = 1e-2
EpsilonCoarse == "1e-2"

\* epsilon = 1e-10
Epsilon == "1e-10"

\* the exponent n of the float literal 1e-n
NegExponent(literal) ==
    CASE literal = "1e-10" -> 10
      [] literal = "1e-2"  -> 2

\* variant of AddEpsilon: the counts as they are, nothing added
AddNothing(counts) ==
    [i \in 1..Len(counts) |-> [value |-> counts[i], epsilon |-> "0"]]

\* counts = counts + epsilon
AddEpsilon(counts) ==
    [i \in 1..Len(counts) |-> [value |-> counts[i], epsilon |-> Epsilon]]

\* the counts of a vector of counts with epsilon added
ValuesOf(shifted) == [i \in 1..Len(shifted) |-> shifted[i].value]

GTerms(observed, expected) == [i \in 1..Len(observed) |-> <<observed[i], expected[i]>>]

\* variant of GStatistic: the first term only, np.sum forgotten
GStatisticFirstTerm(observed, expected) ==
    LET terms == GTerms(observed, expected)
    IN  [terms |-> [t \in {terms[1]} |-> 1]]

\* the value of the sum: its terms (observed_i, expected_i), each with the number
\* of times it occurs (a floating-point sum does not depend on the order of two
\* terms)
GStatistic(observed, expected) ==
    LET terms == GTerms(observed, expected)
    IN  [terms |-> [t \in {terms[i] : i \in 1..Len(terms)} |->
                        Cardinality({i \in 1..Len(terms) : terms[i] = t})]]

\* prod over the terms (o, e) in S of (o * e.den)^o
RECURSIVE UpProduct(_, _)
UpProduct(S, g) ==
    IF S = {} THEN 1
    ELSE LET t == CHOOSE u \in S : TRUE
         IN  Pow(t[1].value * t[2].value.den, t[1].value * g.terms[t]) * UpProduct(S \ {t}, g)

\* prod over the terms (o, e) in S of (e.num)^o
RECURSIVE LowProduct(_, _)
LowProduct(S, g) ==
    IF S = {} THEN 1
    ELSE LET t == CHOOSE u \in S : TRUE
         IN  Pow(t[2].value.num, t[1].value * g.terms[t]) * LowProduct(S \ {t}, g)

\* the G statistic is a finite number: no term is 0 * log(0 / e) = 0 * -inf (NaN)
\* and no term divides by an expected count of 0
GIsFinite(g) ==
    \A t \in DOMAIN g.terms :
        /\ t[1].value > 0 \/ t[1].epsilon # "0"
        /\ t[2].value.num > 0 \/ t[2].epsilon # "0"

\* the sign of a finite G statistic.  sum o * ln(o / e) has the sign of
\* prod (o * e.den)^o - prod (e.num)^o; when the two products are equal every
\* term with o > 0 has o = e and is exactly 0, and a term with o = 0 is
\* epsilon * ln(epsilon / (e + epsilon)) < 0.
GSign(g) ==
    LET up  == UpProduct(DOMAIN g.terms, g)
        low == LowProduct(DOMAIN g.terms, g)
    IN  IF up # low THEN Sign(up - low)
        ELSE IF \E t \in DOMAIN g.terms : t[1].value = 0 THEN -1 ELSE 0

(***************************************************************************)
(* The significance verdict.  A p-value is a float handed in by a caller   *)
(* ([fn |-> "float", x]) or the value of a chi-square distribution         *)
(* function; p < 0.05 is decided for the latter by comparing the statistic *)
(* with the 95 % point of the distribution, given to three decimals.       *)
(***************************************************************************)
\* the literal 0.05
SignificanceLevel == Frac(5, 100)

Float(x) == [fn |-> "float", x |-> x]

\* 1000 * chi2.ppf(0.95, dof) for dof = 1..9
Chi2Critical ==
    <<3841, 5991, 7815, 9488, 11070, 12592, 14067, 15507, 16919>>

\* 1000 * exp(chi2.ppf(0.95, dof) / 2) for dof = 1..2: G > chi2.ppf(0.95, dof)
\* exactly when prod (o / e)^o exceeds it
GCritical == <<6826, 20000>>

\* the float p is a number below the level alpha ("lt"), equal to it ("eq"),
\* above it ("gt"), or NaN ("nan": every comparison with it is False)
CompareP(p, alpha) ==
    CASE p.fn = "float" ->
             IF IsNaN(p.x) THEN "nan"
             ELSE IF FLess(p.x, alpha) THEN "lt"
             ELSE IF p.x = alpha THEN "eq" ELSE "gt"
      [] p.fn \in {"chi2.sf", "chi2_contingency.pvalue"} ->
             \* chi2.sf(x, dof): NaN for a NaN statistic or dof = 0
             IF IsNaN(p.x) \/ p.dof < 1 THEN "nan"
             ELSE IF p.x.num * 1000 > Chi2Critical[p.dof] * p.x.den THEN "lt" ELSE "gt"
      [] p.fn = "1 - chi2.cdf" ->
             \* 1 - chi2.cdf(G, dof): NaN for a NaN statistic or dof = 0
             IF p.dof < 1 \/ ~GIsFinite(p.x) THEN "nan"
             ELSE IF UpProduct(DOMAIN p.x.terms, p.x) * 1000
                        > GCritical[p.dof] * LowProduct(DOMAIN p.x.terms, p.x)
                  THEN "lt" ELSE "gt"

\* print('-' * 50)
Separator == <<"separator", [char |-> "-", times |-> 50]>>

\* variant of interpret_significance: <= in place of <
interpret_significance_le(p_value) ==
    << <<"verdict", IF CompareP(p_value, SignificanceLevel) \in {"lt", "eq"}
                    THEN <<"****** Significant difference ******">>
                    ELSE <<"No significant difference ">> >>,
       Separator >>

\* interpret_significance(p_value): the lines it prints
interpret_significance(p_value) ==
    << <<"verdict", IF CompareP(p_value, SignificanceLevel) = "lt"
                    THEN <<"****** Significant difference ******">>
                    ELSE <<"No significant difference ">> >>,
       Separator >>

\* the interpretation at the end of perform_chi2_test (src/stats_functions.py):
\* the lines it prints
Chi2Significance(p_value, column_name) ==
    << <<"verdict", IF CompareP(p_value, SignificanceLevel) = "lt"
                    THEN <<"****** Significant difference detected for", column_name, "******">>
                    ELSE <<"No significant difference detected for", column_name>> >>,
       Separator >>

(***************************************************************************)
(* Cochran's Q test.                                                       *)
(***************************************************************************)
\* variant of ValuesEqualAsBool: compares (data.values > 0) with data.values.astype(bool)
ValuesPositiveAsBool(t) ==
    \A c \in DOMAIN t : \A i \in 1..NumRows(t) :
        (IF Cell(t, c, i) > 0 THEN 1 ELSE 0) = (IF Cell(t, c, i) # 0 THEN 1 ELSE 0)

\* np.array_equal(data.values, data.values.astype(bool)): every cell equals its
\* own truth value, read as a number
ValuesEqualAsBool(t) ==
    \A c \in DOMAIN t : \A i \in 1..NumRows(t) :
        Cell(t, c, i) = (IF Cell(t, c, i) # 0 THEN 1 ELSE 0)

\* variant of QStat: the two terms of the numerator exchanged
QStatExchanged(k, col_sq, col_ss, row_ss, row_sq) ==
    Frac((k - 1) * (col_ss * col_ss - k * col_sq), k * row_ss - row_sq)

\* variant of QStat: the factor k in place of k - 1
QStatTimesK(k, col_sq, col_ss, row_ss, row_sq) ==
    Frac(k * (k * col_sq - col_ss * col_ss), k * row_ss - row_sq)

\* q_stat = (k-1) * (k * sum(count_col_success**2) - count_col_ss**2)
\*                / (k * count_row_ss - sum(count_row_success**2))
QStat(k, col_sq, col_ss, row_ss, row_sq) ==
    Frac((k - 1) * (k * col_sq - col_ss * col_ss), k * row_ss - row_sq)

\* statsmodels' cochrans_q(x): "success" is the largest value found in x
CochransQ(t) ==
    LET cols == Columns(t)
        k    == Len(cols)
        N    == NumRows(t)
        top  == CHOOSE v \in {Cell(t, cols[j], i) : j \in 1..k, i \in 1..N} :
                    \A j \in 1..k, i \in 1..N : Cell(t, cols[j], i) <= v
        x(i, j) == IF Cell(t, cols[j], i) = top THEN 1 ELSE 0
        count_row_success == [i \in 1..N |-> SumSeq([j \in 1..k |-> x(i, j)])]
        count_col_success == [j \in 1..k |-> SumSeq([i \in 1..N |-> x(i, j)])]
        count_row_ss == SumSeq(count_row_success)
        count_col_ss == SumSeq(count_col_success)
        q_stat == QStat(k,
                        SumSeq([j \in 1..k |-> count_col_success[j] * count_col_success[j]]),
                        count_col_ss,
                        count_row_ss,
                        SumSeq([i \in 1..N |-> count_row_success[i] * count_row_success[i]]))
    IN  [statistic |-> q_stat, pvalue |-> Chi2Sf(q_stat, k - 1)]

\* variant of AsTypeBool: the conversion made in place, data[:] = data.astype(bool)
\* (a column of integers then holds 0 and 1)
AsTypeBoolInPlace(data) ==
    [c \in DOMAIN data |->
        [dtype  |-> data[c].dtype,
         values |-> [i \in 1..NumRows(data) |->
                        IF data[c].dtype = "bool" THEN data[c].values[i]
                        ELSE IF data[c].values[i] # 0 THEN 1 ELSE 0]]]

\* data.values.astype(bool) builds a new array; the table it leaves behind
AsTypeBool(data) == data

perform_cochran_q_test(data) ==
    IF ~ValuesEqualAsBool(data)
    THEN [status |-> "ValueError", ret |-> <<>>, out |-> <<>>, table |-> AsTypeBool(data)]
    ELSE LET results == CochransQ(data)
         IN  [status |-> "returned",
              ret    |-> <<results.statistic>>,
              out    |-> << <<"Cochran's Q Statistic", results.statistic>>,
                            <<"P-value", results.pvalue>> >>
                           \o interpret_significance(results.pvalue),
              table  |-> AsTypeBool(data)]

(***************************************************************************)
(* McNemar's test.                                                         *)
(***************************************************************************)
\* threshold=3 in the signature of calculate_mcnemar_test
DefaultThreshold == 3

\* the threshold in force: the caller's, or the default when omitted
Threshold(thrArg) == IF thrArg = <<>> THEN DefaultThreshold ELSE thrArg[1]

\* df[name] = column: the column is added, or takes the place of the one of that name
SetColumn(t, name, column) == (name :> column) @@ t

\* the sum of row i over the listed columns
RECURSIVE RowSum(_, _, _)
RowSum(t, questions, i) ==
    IF questions = <<>> THEN 0
    ELSE Cell(t, Head(questions), i) + RowSum(t, Tail(questions), i)

RECURSIVE RowSumsFrom(_, _, _)
RowSumsFrom(t, questions, i) ==
    IF i > NumRows(t) THEN <<>>
    ELSE <<RowSum(t, questions, i)>> \o RowSumsFrom(t, questions, i + 1)

\* variant of SumAxis1: df.sum(axis=1), the column selection forgotten
SumAxis1WholeTable(t, questions) ==
    [dtype |-> "int64", values |-> RowSumsFrom(t, Columns(t), 1)]

\* df[questions].sum(axis=1)
SumAxis1(t, questions) == [dtype |-> "int64", values |-> RowSumsFrom(t, questions, 1)]

\* variant of IsHigh: > in place of >=
IsHighStrict(correct, threshold) == correct > threshold

\* df['image_correct'] >= threshold, for one subject
IsHigh(correct, threshold) == correct >= threshold

RECURSIVE HighFrom(_, _, _)
HighFrom(values, threshold, i) ==
    IF i > Len(values) THEN <<>>
    ELSE <<IsHigh(values[i], threshold)>> \o HighFrom(values, threshold, i + 1)

\* df[name] >= threshold
HighColumn(t, name, threshold) ==
    [dtype |-> "bool", values |-> HighFrom(t[name].values, threshold, 1)]

\* the table after the four assignments of calculate_mcnemar_test
WithDerivedColumns(t, image_questions, sound_questions, threshold) ==
    LET t1 == SetColumn(t, "image_correct", SumAxis1(t, image_questions))
        t2 == SetColumn(t1, "sound_correct", SumAxis1(t1, sound_questions))
        t3 == SetColumn(t2, "image_high", HighColumn(t2, "image_correct", threshold))
    IN  SetColumn(t3, "sound_high", HighColumn(t3, "sound_correct", threshold))

\* variant of CountWhere: | in place of & between the two conditions
CountWhereEither(t, ih, sh) ==
    Cardinality({i \in 1..NumRows(t) :
                    t["image_high"].values[i] = ih \/ t["sound_high"].values[i] = sh})

\* ((df['image_high'] == ih) & (df['sound_high'] == sh)).sum()
CountWhere(t, ih, sh) ==
    Cardinality({i \in 1..NumRows(t) :
                    t["image_high"].values[i] = ih /\ t["sound_high"].values[i] = sh})

\* variant of ContingencyTable: columns [a, b] and [c, d]
ContingencyTableTransposed(a, b, c, d) ==
    [index   |-> <<"Image Correct (Yes)", "Image Incorrect (No)">>,
     columns |-> <<"Sound Correct (Yes)", "Sound Incorrect (No)">>,
     data    |-> << <<a, b>>, <<c, d>> >>]

\* pd.DataFrame({'Sound Correct (Yes)': [a, c], 'Sound Incorrect (No)': [b, d]},
\*              index=['Image Correct (Yes)', 'Image Incorrect (No)']);
\* data[j] is column j of the frame, from the first index label to the last
ContingencyTable(a, b, c, d) ==
    [index   |-> <<"Image Correct (Yes)", "Image Incorrect (No)">>,
     columns |-> <<"Sound Correct (Yes)", "Sound Incorrect (No)">>,
     data    |-> << <<a, c>>, <<b, d>> >>]

\* variant of McNemarStatistic: with the continuity correction (|b - c| - 1)**2
McNemarStatisticCorrected(b, c) ==
    IF (b + c) # 0 THEN Frac((Abs(b - c) - 1) * (Abs(b - c) - 1), b + c) ELSE Frac(0, 1)

\* variant of McNemarStatistic: (b - c) * |b - c| in place of (b - c)**2
McNemarStatisticSigned(b, c) ==
    IF (b + c) # 0 THEN Frac((b - c) * Abs(b - c), b + c) ELSE Frac(0, 1)

\* variant of McNemarStatistic: // in place of /
McNemarStatisticFloorDiv(b, c) ==
    IF (b + c) # 0 THEN Frac(((b - c) * (b - c)) \div (b + c), 1) ELSE Frac(0, 1)

\* (b - c)**2 / (b + c) if (b + c) != 0 else 0
McNemarStatistic(b, c) ==
    IF (b + c) # 0 THEN Frac((b - c) * (b - c), b + c) ELSE Frac(0, 1)

\* variant of CallersTable: the function works on df.copy()
CallersTableCopied(t, after) == t

\* the table the caller holds after the call: df['image_correct'] = ... and the
\* three assignments after it are made on the object the caller passed
CallersTable(t, after) == after

calculate_mcnemar_test(t, image_questions, sound_questions, thrArg) ==
    LET after == WithDerivedColumns(t, image_questions, sound_questions, Threshold(thrArg))
        a == CountWhere(after, TRUE, TRUE)
        b == CountWhere(after, TRUE, FALSE)
        c == CountWhere(after, FALSE, TRUE)
        d == CountWhere(after, FALSE, FALSE)
        contingency_table == ContingencyTable(a, b, c, d)
        mcnemar_statistic == McNemarStatistic(b, c)
        p_value == Chi2Sf(mcnemar_statistic, 1)
    IN  [status |-> "returned",
         ret    |-> <<contingency_table, mcnemar_statistic, p_value>>,
         out    |-> << <<"Table", contingency_table>>,
                       <<"McNemar test statistic", mcnemar_statistic>>,
                       <<"P-value", p_value>> >>,
         table  |-> CallersTable(t, after)]

(***************************************************************************)
(* The omnibus G-test and the pairwise G-test.                             *)
(***************************************************************************)
\* variant of UniformExpected: // in place of /
UniformExpectedFloorDiv(total, m) == [i \in 1..m |-> Frac(total \div m, 1)]

\* variant of UniformExpected: total / 3, the divisor of the pairwise test
UniformExpectedOfThree(total, m) == [i \in 1..m |-> Frac(total, 3)]

\* np.array([total / len(observed)] * len(observed))
UniformExpected(total, m) == [i \in 1..m |-> Frac(total, m)]

\* variant of ReturnValue: both values, as the docstrings have it
ReturnBoth(g_statistic, p_value) == <<g_statistic, p_value>>

\* return p_value
ReturnValue(g_statistic, p_value) == <<p_value>>

g_test(t, column_name) ==
    LET observed == value_counts(t[column_name]).values
        total    == SumSeq(observed)
        expected == UniformExpected(total, Len(observed))
        observed_eps == AddEpsilon(observed)
        expected_eps == AddEpsilon(expected)
        g_statistic == GStatistic(observed_eps, expected_eps)
        dof      == Len(observed) - 1
        p_value  == OneMinusChi2Cdf(g_statistic, dof)
    IN  [status |-> "returned",
         ret    |-> ReturnValue(g_statistic, p_value),
         out    |-> << <<"Column name", column_name>>,
                       <<"Observed", observed_eps>>,
                       <<"Expected", expected_eps>>,
                       <<"G-statistic", g_statistic>>,
                       <<"P-value", p_value>> >>
                      \o interpret_significance(p_value)]

\* variant of PairwiseExpected: total / (number of labels in the column)
PairwiseExpectedByLabels(t, column_name) ==
    LET m == Len(value_counts(t[column_name]).index)
    IN  <<Frac(NumRows(t), m), Frac(NumRows(t), m)>>

\* total = len(df); expected = np.array([total / 3] * 2)
PairwiseExpected(t, column_name) == <<Frac(NumRows(t), 3), Frac(NumRows(t), 3)>>

\* if len(observed) < 2: observed = np.append(observed, [0] * (2 - len(observed)))
PadToTwo(observed) ==
    IF Len(observed) < 2
    THEN observed \o [i \in 1..(2 - Len(observed)) |-> 0]
    ELSE observed

g_test_pairwise(t, column_name, category1, category2) ==
    LET vc == value_counts(t[column_name])
    IN  IF ~(InIndex(vc, category1) /\ InIndex(vc, category2))
        THEN Raised("KeyError")
        ELSE LET observed == PadToTwo(Loc(vc, <<category1, category2>>))
                 expected == PairwiseExpected(t, column_name)
                 observed_eps == AddEpsilon(observed)
                 expected_eps == AddEpsilon(expected)
                 g_statistic == GStatistic(observed_eps, expected_eps)
                 dof      == 1
                 p_value  == OneMinusChi2Cdf(g_statistic, dof)
             IN  [status |-> "returned",
                  ret    |-> ReturnValue(g_statistic, p_value),
                  out    |-> << <<"Comparing categories", <<category1, category2>> >>,
                                <<"Observed counts", observed_eps>>,
                                <<"Expected counts", expected_eps>>,
                                <<"G-statistic", g_statistic>>,
                                <<"P-value", p_value>> >>
                               \o interpret_significance(p_value)]

(***************************************************************************)
(* The Chi-Square goodness-of-fit test (src/stats_functions.py).           *)
(***************************************************************************)
\* one cell of the statistic of scipy.stats.chi2_contingency: the cell's expected
\* value is row * col / total; with one degree of freedom the observed cell is
\* first moved towards it by min(0.5, |expected - observed|) (Yates); the
\* cell contributes (observed - expected)**2 / expected
Chi2Term(o, row, col, total, dof) ==
    LET e         == FDiv(FMul(row, col), total)
        diff      == FAbs(FSub(e, o))
        magnitude == IF FLess(diff, Frac(1, 2)) THEN diff ELSE Frac(1, 2)
        moved     == IF dof # 1 THEN o
                     ELSE IF FLess(o, e) THEN FAdd(o, magnitude) ELSE FSub(o, magnitude)
        d         == FSub(moved, e)
    IN  FDiv(FMul(d, d), e)

\* the cells of columns j.. of a table of two rows
RECURSIVE Chi2TermsFrom(_, _, _, _, _)
Chi2TermsFrom(rows, sums, total, dof, j) ==
    IF j > Len(rows[1]) THEN <<>>
    ELSE LET col == FAdd(rows[1][j], rows[2][j])
         IN  <<Chi2Term(rows[1][j], sums[1], col, total, dof),
               Chi2Term(rows[2][j], sums[2], col, total, dof)>>
             \o Chi2TermsFrom(rows, sums, total, dof, j + 1)

RECURSIVE AsFloats(_)
AsFloats(counts) ==
    IF counts = <<>> THEN <<>> ELSE <<Frac(Head(counts), 1)>> \o AsFloats(Tail(counts))

\* the statistic of scipy.stats.chi2_contingency on a table of two rows (counts,
\* floats): the sum of the cells' terms, and 0.0 when dof = 0
Chi2ContingencyStatistic(table) ==
    LET rows  == <<AsFloats(table[1]), table[2]>>
        sums  == <<FSum(rows[1]), FSum(rows[2])>>
        total == FAdd(sums[1], sums[2])
        dof   == (Len(table) - 1) * (Len(table[1]) - 1)
    IN  IF dof = 0 THEN Frac(0, 1)
        ELSE FSum(Chi2TermsFrom(rows, sums, total, dof, 1))

\* scipy.stats.chi2_contingency(table): statistic, p-value, degrees of freedom
\* (p = 1.0 when dof = 0, chi2.sf(statistic, dof) otherwise)
chi2_contingency(table) ==
    LET dof == (Len(table) - 1) * (Len(table[1]) - 1)
        x   == Chi2ContingencyStatistic(table)
    IN  [statistic |-> [fn |-> "chi2_contingency.statistic", table |-> table, x |-> x],
         pvalue    |-> IF dof = 0 THEN Float(Frac(1, 1))
                       ELSE [fn |-> "chi2_contingency.pvalue", table |-> table,
                             x |-> x, dof |-> dof],
         dof       |-> dof]

perform_chi2_test(t, column_name) ==
    LET observed_frequencies == value_counts(t[column_name]).values
        total_observations   == NumRows(t)
        num_categories       == Len(observed_frequencies)
        expected_frequencies == UniformExpected(total_observations, num_categories)
        res == chi2_contingency(<<observed_frequencies, expected_frequencies>>)
    IN  [status |-> "returned",
         ret    |-> <<res.pvalue>>,
         out    |-> << <<"Chi-Square Goodness of Fit Test for column", column_name>>,
                       <<"Chi-square statistic", res.statistic>>,
                       <<"p-value", res.pvalue>>,
                       <<"Degrees of freedom", res.dof>> >>
                      \o Chi2Significance(res.pvalue, column_name)]

(***************************************************************************)
(* The caller: calls on the shared table, in any order.                    *)
(***************************************************************************)
\* the column the categorical tests are run on, and the categories asked for
\* (a pairwise comparison names two different categories)
CategoricalColumns == {"Q1"}

Categories == {0, 1, 2}

\* the column lists and thresholds handed to calculate_mcnemar_test
QuestionLists ==
    {<< <<"Q1">>, <<"Q2">> >>, << <<"Q2">>, <<"Q1">> >>, << <<"Q1", "Q2">>, <<"Q2">> >>}

ThresholdArgs == {<<>>, <<1>>, <<2>>}

Outcome(op, args, r) ==
    [op |-> op, args |-> args, status |-> r.status, ret |-> r.ret, out |-> r.out]

\* the answers ['A', 'A', 'B', 'B', 'B', 'C'] of six subjects in Q1, the labels
\* A, B, C written 0, 1, 2
ScenarioRows ==
    {<< <<0, 0>>, <<0, 1>>, <<1, 0>>, <<1, 0>>, <<1, 1>>, <<2, 0>> >>}

\* the tests use nothing outside the table
NoEnv == [pc |-> "none"]

\* the binary response matrix [[1,1,1,0,0,0],[1,0,1,0,1,0]]: two subjects, six items
CochranScenario ==
    [Q1 |-> [dtype |-> "int64", values |-> <<1, 1>>],
     Q2 |-> [dtype |-> "int64", values |-> <<1, 0>>],
     Q3 |-> [dtype |-> "int64", values |-> <<1, 1>>],
     Q4 |-> [dtype |-> "int64", values |-> <<0, 0>>],
     Q5 |-> [dtype |-> "int64", values |-> <<0, 1>>],
     Q6 |-> [dtype |-> "int64", values |-> <<0, 0>>]]

Init ==
    /\ \/ \E rs \in InputRows \cup ScenarioRows : df = TableOf(rs)
       \/ df = CochranScenario
    /\ df0 = df
    /\ last = NoCall
    /\ env = NoEnv

CallCochranQ ==
    /\ LET r == perform_cochran_q_test(df)
       IN  /\ last' = Outcome("perform_cochran_q_test", <<>>, r)
           /\ df' = r.table
    /\ UNCHANGED <<df0, env>>

CallChi2 ==
    \E col \in CategoricalColumns :
        /\ last' = Outcome("perform_chi2_test", <<col>>, perform_chi2_test(df, col))
        /\ UNCHANGED <<df, df0, env>>

CallGTest ==
    \E col \in CategoricalColumns :
        /\ last' = Outcome("g_test", <<col>>, g_test(df, col))
        /\ UNCHANGED <<df, df0, env>>

CallGTestPairwise ==
    \E col \in CategoricalColumns, c1 \in Categories, c2 \in Categories :
        /\ c1 # c2
        /\ last' = Outcome("g_test_pairwise", <<col, c1, c2>>,
                           g_test_pairwise(df, col, c1, c2))
        /\ UNCHANGED <<df, df0, env>>

CallMcNemar ==
    \E lists \in QuestionLists, thr \in ThresholdArgs :
        /\ LET r == calculate_mcnemar_test(df, lists[1], lists[2], thr)
           IN  /\ last' = Outcome("calculate_mcnemar_test", <<lists[1], lists[2], thr>>, r)
               /\ df' = r.table
        /\ UNCHANGED <<df0, env>>

Next ==
    \/ CallCochranQ
    \/ CallChi2
    \/ CallGTest
    \/ CallGTestPairwise
    \/ CallMcNemar

Spec == Init /\ [][Next]_vars

(***************************************************************************)
(* The analysis of the categorical answers: the script converts the        *)
(* ordinal columns to a categorical dtype (src/src/helper_functions.py)    *)
(* and runs the categorical tests.                                         *)
(***************************************************************************)
\* ordinal_columns: column name -> the list of its categories
OrdinalColumns == [c \in CategoricalColumns |-> <<0, 1, 2>>]

\* pd.Categorical(col, categories=ordinal_columns[col.name], ordered=True) if
\* col.name in ordinal_columns, else col
convert_to_categorical(name, col, ordinal_columns) ==
    IF name \in DOMAIN ordinal_columns
    THEN [dtype |-> "category", values |-> col.values, categories |-> ordinal_columns[name]]
    ELSE col

\* df = df.apply(lambda col: convert_to_categorical(col, ordinal_columns))
ConvertToCategorical ==
    /\ df' = [c \in DOMAIN df |-> convert_to_categorical(c, df[c], OrdinalColumns)]
    /\ last' = [NoCall EXCEPT !.op = "convert_to_categorical", !.status = "returned"]
    /\ UNCHANGED <<df0, env>>

NextCategorical ==
    \/ ConvertToCategorical
    \/ CallChi2
    \/ CallGTest
    \/ CallGTestPairwise

SpecCategorical == Init /\ [][NextCategorical]_vars

(***************************************************************************)
(* The significance verdict on p-values of the caller's choice, next to    *)
(* the tests that print it.                                                *)
(***************************************************************************)
\* the largest p-value handed in, in hundredths
MaxPercent == 10

PValues == {Float(Frac(k, 100)) : k \in 0..MaxPercent} \cup {Float(Frac(0, 0))}

CallInterpretSignificance ==
    \E p \in PValues :
        /\ last' = [op |-> "interpret_significance", args |-> <<p>>, status |-> "returned",
                    ret |-> <<>>, out |-> interpret_significance(p)]
        /\ UNCHANGED <<df, df0, env>>

\* the interpretation at the end of perform_chi2_test, on its own
CallChi2Significance ==
    \E p \in PValues, col \in CategoricalColumns :
        /\ last' = [op |-> "Chi2Significance", args |-> <<p, col>>, status |-> "returned",
                    ret |-> <<>>, out |-> Chi2Significance(p, col)]
        /\ UNCHANGED <<df, df0, env>>

NextSignificance ==
    \/ CallInterpretSignificance
    \/ CallChi2Significance
    \/ CallCochranQ
    \/ CallChi2
    \/ CallGTest
    \/ CallGTestPairwise

SpecSignificance == Init /\ [][NextSignificance]_vars

(***************************************************************************)
(* The G statistic on columns in which every category occurs at least ten  *)
(* times (lines 55 to 73 of g_test; the p-value and the verdict are not    *)
(* computed).                                                              *)
(***************************************************************************)
MaxCount == 13

MaxCategories == 3

\* the number of occurrences of a category: ten or more
Counts == 10..MaxCount

RECURSIVE CountVectors(_)
CountVectors(m) ==
    IF m = 0 THEN {<<>>}
    ELSE {Append(v, c) : v \in CountVectors(m - 1), c \in Counts}

\* a column in which label j - 1 occurs counts[j] times
RECURSIVE ColumnOfCounts(_, _)
ColumnOfCounts(counts, j) ==
    IF j > Len(counts) THEN <<>>
    ELSE [i \in 1..counts[j] |-> j - 1] \o ColumnOfCounts(counts, j + 1)

TableOfCounts(counts) ==
    [c \in {QuestionColumns[1]} |-> [dtype |-> "int64", values |-> ColumnOfCounts(counts, 1)]]

\* observed = df[column_name].value_counts().values ... G = 2 * np.sum(observed *
\* np.log(observed / expected)), epsilon added to both
GOfColumn(t, column_name) ==
    LET observed == value_counts(t[column_name]).values
        total    == SumSeq(observed)
        expected == UniformExpected(total, Len(observed))
        observed_eps == AddEpsilon(observed)
        expected_eps == AddEpsilon(expected)
        g_statistic == GStatistic(observed_eps, expected_eps)
    IN  [status |-> "returned",
         ret    |-> <<g_statistic>>,
         out    |-> << <<"Observed", observed_eps>>,
                       <<"Expected", expected_eps>>,
                       <<"G-statistic", g_statistic>> >>]

InitEpsilon ==
    /\ \E m \in 1..MaxCategories : \E counts \in CountVectors(m) : df = TableOfCounts(counts)
    /\ df0 = df
    /\ last = NoCall
    /\ env = NoEnv

ComputeG ==
    \E c \in CategoricalColumns :
        /\ last' = Outcome("g_statistic", <<c>>, GOfColumn(df, c))
        /\ UNCHANGED <<df, df0, env>>

NextEpsilon == ComputeG

SpecEpsilon == InitEpsilon /\ [][NextEpsilon]_vars

(***************************************************************************)
(* Loading the category order (src/helper_functions.py): a generator       *)
(* script is run, then the JSON file is read.  env.files is the file       *)
(* system: for each JSON path <<>> (no such file), <<"text">> (a file that *)
(* is not JSON) or <<"json", d>> (a file holding the dictionary d).        *)
(***************************************************************************)
ScriptPath == "generate_ordinal_columns.py"

JsonFiles == {"ordinal_columns.json", "columns.json"}

NoFile == <<>>

Dicts ==
    {OrdinalColumns,
     [c \in CategoricalColumns |-> <<2, 1, 0>>],
     [c \in {QuestionColumns[j] : j \in 1..Len(QuestionColumns)} |-> <<0, 1>>]}

Contents == {NoFile, <<"text">>} \cup {<<"json", d>> : d \in Dicts}

\* what the script at script_path does when run: the file it writes (if any)
\* and its exit status
Scripts ==
    [returncode : {0, 1},
     writes     : {<<>>} \cup {<<f, c>> : f \in JsonFiles, c \in Contents \ {NoFile}}]

\* subprocess.run(['python', script_path], capture_output=True, text=True, ...)
subprocess_run(files, script) ==
    [returncode |-> script.returncode,
     stderr     |-> IF script.returncode = 0 THEN "" ELSE "Traceback",
     files      |-> IF script.writes = <<>> THEN files
                    ELSE (script.writes[1] :> script.writes[2]) @@ files]

\* variant of CheckTrue: check=False, the exit status is not looked at
CheckFalse(returncode) == FALSE

\* check=True: CalledProcessError is raised when the exit status is not 0
CheckTrue(returncode) == returncode # 0

\* json.load(file)
json_load(content) == content[2]

load_ordinal_columns(files, script_path, script, json_file) ==
    LET run == subprocess_run(files, script)
        ran == <<"subprocess.run", script_path>>
    IN  IF CheckTrue(run.returncode)
        THEN [status |-> "CalledProcessError",
              ret    |-> <<>>,
              out    |-> <<ran, <<"print", <<"Error running ", script_path, ": ", run.stderr>> >> >>,
              files  |-> run.files]
        ELSE LET ok      == <<"print", <<script_path, " ran successfully.">> >>
                 opened  == <<"open", json_file>>
                 content == run.files[json_file]
             IN  IF content = NoFile
                 THEN [status |-> "FileNotFoundError",
                       ret    |-> <<>>,
                       out    |-> <<ran, ok, opened,
                                    <<"message", <<json_file, " was not created. Check ",
                                                   script_path, " for issues.">> >> >>,
                       files  |-> run.files]
                 ELSE IF content[1] # "json"
                 THEN [status |-> "JSONDecodeError", ret |-> <<>>,
                       out |-> <<ran, ok, opened>>, files |-> run.files]
                 ELSE [status |-> "returned", ret |-> <<json_load(content)>>,
                       out |-> <<ran, ok, opened>>, files |-> run.files]

InitLoader ==
    /\ df = CochranScenario
    /\ df0 = df
    /\ last = NoCall
    /\ \E files \in [JsonFiles -> Contents] : env = [pc |-> "none", files |-> files]

CallLoadOrdinalColumns ==
    \E script \in Scripts, json_file \in JsonFiles :
        LET r == load_ordinal_columns(env.files, ScriptPath, script, json_file)
        IN  /\ last' = Outcome("load_ordinal_columns", <<script, json_file>>, r)
            /\ env' = [env EXCEPT !.files = r.files]
            /\ UNCHANGED <<df, df0>>

NextLoader == CallLoadOrdinalColumns

SpecLoader == InitLoader /\ [][NextLoader]_vars

(***************************************************************************)
(* The answer matrix of the quiz (src/src/helper_functions.py).  The quiz  *)
(* table is the sequence of its columns, each [name, values], in the order *)
(* of the frame: some columns about the subject, then Q1 .. Q12.           *)
(***************************************************************************)
MaxSubjects == 2

\* for i in range(12): the questions Q1 .. Q12
NumQuestions == 12

\* .iloc[:, 3:]
FirstReturned == 3

\* f'Q{i+1}' for i + 1 = 1 .. 12
QName(i) ==
    <<"Q1", "Q2", "Q3", "Q4", "Q5", "Q6", "Q7", "Q8", "Q9", "Q10", "Q11", "Q12">>[i]

\* columns about the subject, each holding a number
LeadingNames == <<"Subject", "Age", "Experience", "Training">>

\* the answers of a subject who says "AI" to the first j questions
Answer(j, i) == IF i <= j THEN "AI" ELSE "Human"

AnswerList(j, len) == [i \in 1..len |-> Answer(j, i)]

\* the quiz table of subjects with the answers js[1], js[2], ..., behind k
\* columns about the subject
QuizTable(k, js) ==
    [c \in 1..k |-> [name |-> LeadingNames[c], values |-> [r \in 1..Len(js) |-> 20 + r]]]
    \o [i \in 1..NumQuestions |->
           [name |-> QName(i), values |-> [r \in 1..Len(js) |-> Answer(js[r], i)]]]

RECURSIVE Patterns(_)
Patterns(n) ==
    IF n = 0 THEN {<<>>}
    ELSE {Append(js, j) : js \in Patterns(n - 1), j \in {0, 3, 6, 9, 12}}

QuizTables ==
    {QuizTable(k, js) : k \in 0..Len(LeadingNames),
                        js \in UNION {Patterns(n) : n \in 1..MaxSubjects}}

\* the lists of correct answers handed in: twelve answers, or one too few
CorrectAnswerLists ==
    {AnswerList(j, NumQuestions) : j \in {0, 6, 12}} \cup {AnswerList(6, NumQuestions - 1)}

ColumnNames(cols) == {cols[j].name : j \in 1..Len(cols)}

\* variant of IsCorrect: 1 and 0 exchanged
IsCorrectInverted(x, answer) == IF x = answer THEN 0 ELSE 1

\* lambda x: 1 if x == correct_answers[i] else 0
IsCorrect(x, answer) == IF x = answer THEN 1 ELSE 0

\* df_correct[name] = df_correct[name].apply(lambda x: ...)
ApplyToColumn(cols, name, answer) ==
    [j \in 1..Len(cols) |->
        IF cols[j].name = name
        THEN [name |-> name,
              values |-> [r \in 1..Len(cols[j].values) |-> IsCorrect(cols[j].values[r], answer)]]
        ELSE cols[j]]

\* the loop for i in range(12), from question i on
RECURSIVE ConvertFrom(_, _, _)
ConvertFrom(cols, correct_answers, i) ==
    IF i > NumQuestions THEN cols
    ELSE ConvertFrom(ApplyToColumn(cols, QName(i), correct_answers[i]), correct_answers, i + 1)

\* cols.iloc[:, n:]
ILocColumnsFrom(cols, n) == SubSeq(cols, n + 1, Len(cols))

\* table is the caller's table after the call: the loop works on df.copy()
create_answer_matrix(t, correct_answers) ==
    IF \E i \in 1..NumQuestions : QName(i) \notin ColumnNames(t)
    THEN [status |-> "KeyError", ret |-> <<>>, out |-> <<>>, table |-> t]
    ELSE IF Len(correct_answers) < NumQuestions
    THEN [status |-> "IndexError", ret |-> <<>>, out |-> <<>>, table |-> t]
    ELSE LET df_correct == ConvertFrom(t, correct_answers, 1)
         IN  [status |-> "returned",
              ret    |-> <<ILocColumnsFrom(df_correct, FirstReturned)>>,
              out    |-> <<>>,
              table  |-> t]

InitQuiz ==
    /\ df \in QuizTables
    /\ df0 = df
    /\ last = NoCall
    /\ env = NoEnv

CallCreateAnswerMatrix ==
    \E correct_answers \in CorrectAnswerLists :
        LET r == create_answer_matrix(df, correct_answers)
        IN  /\ last' = Outcome("create_answer_matrix", <<correct_answers>>, r)
            /\ df' = r.table
            /\ UNCHANGED <<df0, env>>

NextQuiz == CallCreateAnswerMatrix

SpecQuiz == InitQuiz /\ [][NextQuiz]_vars

(***************************************************************************)
(* Asking for a number (src/.ipynb_checkpoints/helper_functions-checkpoint *)
(* .py).  env.pc is "prompt" while get_user_input waits at input() and     *)
(* "returned" after the break; env.user_number is the global, defined or   *)
(* not.  An entry is the sequence of the characters typed.                 *)
(***************************************************************************)
MaxLen == 3

Digits == {"1"}

Alphabet == Digits \cup {".", "-", " ", "a"}

Entries == UNION {[1..n -> Alphabet] : n \in 0..MaxLen}

\* str.strip(), which float() applies to its argument
RECURSIVE LStrip(_)
LStrip(s) == IF s # <<>> /\ Head(s) = " " THEN LStrip(Tail(s)) ELSE s

RECURSIVE RStrip(_)
RStrip(s) == IF s # <<>> /\ s[Len(s)] = " " THEN RStrip(SubSeq(s, 1, Len(s) - 1)) ELSE s

Strip(s) == RStrip(LStrip(s))

\* the entry without blanks around it and without its sign
Unsigned(s) ==
    LET t == Strip(s) IN IF t # <<>> /\ Head(t) = "-" THEN Tail(t) ELSE t

IsNegative(s) == LET t == Strip(s) IN t # <<>> /\ Head(t) = "-"

\* float(s) does not raise ValueError: digits with at most one point among
\* them, and at least one digit
Parses(s) ==
    LET u == Unsigned(s)
    IN  /\ \A i \in 1..Len(u) : u[i] \in Digits \cup {"."}
        /\ Cardinality({i \in 1..Len(u) : u[i] = "."}) <= 1
        /\ \E i \in 1..Len(u) : u[i] \in Digits

DigitValue(c) == CASE c = "1" -> 1

\* the number written by the digits ds
RECURSIVE DigitsValue(_)
DigitsValue(ds) ==
    IF ds = <<>> THEN 0
    ELSE 10 * DigitsValue(SubSeq(ds, 1, Len(ds) - 1)) + DigitValue(ds[Len(ds)])

\* float(s) for an entry that parses
ParseFloat(s) ==
    LET u        == Unsigned(s)
        ds       == SelectSeq(u, LAMBDA c : c \in Digits)
        point    == IF \E i \in 1..Len(u) : u[i] = "."
                    THEN CHOOSE i \in 1..Len(u) : u[i] = "." ELSE Len(u)
        decimals == Len(u) - point
        sign     == IF IsNegative(s) THEN -1 ELSE 1
    IN  Frac(sign * DigitsValue(ds), Pow(10, decimals))

Undefined == [defined |-> FALSE, value |-> Frac(0, 1)]

Number(q) == [defined |-> TRUE, value |-> q]

Prompt == <<"input", "Please enter a number: ">>

\* variant of AfterValueError: the loop is left
AfterValueErrorBreak(e) == [e EXCEPT !.pc = "returned"]

\* except ValueError: print(...), and the loop goes round
AfterValueError(e) == [e EXCEPT !.pc = "prompt"]

\* one round of the loop of get_user_input on the entry s
get_user_input(e, s) ==
    IF Parses(s)
    THEN [status |-> "returned", ret |-> <<>>, out |-> <<Prompt>>,
          env |-> [pc |-> "returned", user_number |-> Number(ParseFloat(s))]]
    ELSE [status |-> "ValueError", ret |-> <<>>,
          out |-> <<Prompt, <<"print", "That's not a valid number. Please try again.">> >>,
          env |-> AfterValueError(e)]

\* get_user_input has been called; the global is not defined yet or holds the
\* number of an earlier call
InitInput ==
    /\ df = CochranScenario
    /\ df0 = df
    /\ last = NoCall
    /\ \E u \in {Undefined, Number(Frac(5, 1))} : env = [pc |-> "prompt", user_number |-> u]

EnterValid ==
    /\ env.pc = "prompt"
    /\ \E s \in Entries :
        /\ Parses(s)
        /\ LET r == get_user_input(env, s)
           IN  /\ last' = Outcome("get_user_input", <<s>>, r)
               /\ env' = r.env
    /\ UNCHANGED <<df, df0>>

EnterInvalid ==
    /\ env.pc = "prompt"
    /\ \E s \in Entries :
        /\ ~Parses(s)
        /\ LET r == get_user_input(env, s)
           IN  /\ last' = Outcome("get_user_input", <<s>>, r)
               /\ env' = r.env
    /\ UNCHANGED <<df, df0>>

NextInput ==
    \/ EnterValid
    \/ EnterInvalid

SpecInput == InitInput /\ [][NextInput]_vars

(***************************************************************************)
(* Properties.                                                             *)
(***************************************************************************)
\* the call op(args) made on table t
Apply(t, op, args) ==
    CASE op = "perform_cochran_q_test" -> perform_cochran_q_test(t)
      [] op = "perform_chi2_test"      -> perform_chi2_test(t, args[1])
      [] op = "g_test"                 -> g_test(t, args[1])
      [] op = "g_test_pairwise"        -> g_test_pairwise(t, args[1], args[2], args[3])
      [] op = "calculate_mcnemar_test" -> calculate_mcnemar_test(t, args[1], args[2], args[3])

\* some cell of the table is a number other than 0 and 1
HasNonBinaryCell(t) ==
    \E c \in DOMAIN t : \E i \in 1..Len(t[c].values) :
        t[c].dtype # "bool" /\ t[c].values[i] \notin {0, 1}

\* the number of subjects of the table whose derived classifications are ih and sh
Subjects(ih, sh) ==
    Cardinality({i \in 1..Len(df["image_high"].values) :
                    df["image_high"].values[i] = ih /\ df["sound_high"].values[i] = sh})

McNemarCalled == last.op = "calculate_mcnemar_test"

PairwiseCalled == last.op = "g_test_pairwise"

\* C1: perform_cochran_q_test on a table with a cell that is not 0 or 1 raises
\* ValueError: no statistic is returned, nothing is printed, the table is unchanged.
C1_NonBinaryRejected ==
    [][(last'.op = "perform_cochran_q_test" /\ HasNonBinaryCell(df))
         => /\ last'.status = "ValueError"
            /\ last'.ret = <<>>
            /\ last'.out = <<>>
            /\ df' = df]_vars

C1_Witness ==
    /\ last.op = "perform_cochran_q_test"
    /\ last.status = "ValueError"
    /\ HasNonBinaryCell(df)
    /\ DOMAIN df = DOMAIN df0

\* C2: calculate_mcnemar_test returns (b - c)^2 / (b + c) when b + c > 0 and
\* exactly 0 when b + c = 0, and always returns (no division fault).
C2_McNemarStatistic ==
    McNemarCalled =>
        LET b == Subjects(TRUE, FALSE)
            c == Subjects(FALSE, TRUE)
            statistic == last.ret[2]
        IN  /\ last.status = "returned"
            /\ statistic.den > 0
            /\ (b + c > 0) => statistic.num * (b + c) = (b - c) * (b - c) * statistic.den
            /\ (b + c = 0) => statistic.num = 0

C2_Witness ==
    /\ McNemarCalled
    /\ Subjects(TRUE, FALSE) = 2
    /\ Subjects(FALSE, TRUE) = 1
    /\ last.ret[2] = [num |-> 1, den |-> 3]

\* C3: the McNemar statistic is 0 if and only if b = c, and strictly positive
\* whenever b differs from c.
C3_ZeroIffEqualDiscordant ==
    McNemarCalled =>
        LET b == Subjects(TRUE, FALSE)
            c == Subjects(FALSE, TRUE)
        IN  /\ (last.ret[2].num = 0) <=> (b = c)
            /\ (b # c) => (last.ret[2].num > 0 /\ last.ret[2].den > 0)

C3_Witness ==
    /\ McNemarCalled
    /\ Subjects(TRUE, FALSE) = Subjects(FALSE, TRUE)
    /\ Subjects(TRUE, FALSE) > 0
    /\ last.ret[2].num = 0

\* C4: g_test_pairwise with a category that does not occur in the column does not
\* fail: the absent category is counted as 0, both counts are in the observed
\* vector and a p-value is returned.
C4_AbsentCategoryCountedZero ==
    PairwiseCalled =>
        LET values == df[last.args[1]].values
        IN  /\ last.status = "returned"
            /\ Len(last.ret) = 1
            /\ ValuesOf(Printed(last.out, "Observed counts"))
                 = <<Count(values, last.args[2]), Count(values, last.args[3])>>

\* C5: every test returns a nonnegative statistic (a NaN of a degenerate table
\* set aside); in particular the pairwise G statistic is never negative.
C5_StatisticNonNegative ==
    (last.status = "returned") =>
        CASE last.op = "perform_cochran_q_test" ->
                 IsNaN(last.ret[1]) \/ FracSign(last.ret[1]) >= 0
          [] last.op = "calculate_mcnemar_test" -> FracSign(last.ret[2]) >= 0
          [] last.op = "g_test" -> GSign(Printed(last.out, "G-statistic")) >= 0
          [] last.op = "g_test_pairwise" -> GSign(Printed(last.out, "G-statistic")) >= 0
          [] OTHER -> TRUE

\* C6: whatever calls came before, a call returns what the same call returns on
\* the table as the caller first supplied it.
C6_NoStateLeak ==
    (last.op # "none") =>
        LET first == Apply(df0, last.op, last.args)
        IN  last.status = first.status /\ last.ret = first.ret

\* C6 as amended: the same, except for a perform_cochran_q_test call made after a
\* calculate_mcnemar_test call (which finds the derived columns in the table).
C6_NoLeakButCochranAfterMcNemar ==
    (last.op # "none" /\ (last.op = "perform_cochran_q_test" => DOMAIN df = DOMAIN df0)) =>
        LET first == Apply(df0, last.op, last.args)
        IN  last.status = first.status /\ last.ret = first.ret

C6_Witness ==
    /\ last.op = "g_test_pairwise"
    /\ last.status = "returned"
    /\ "image_high" \in DOMAIN df
    /\ \E i \in 1..NumRows(df) : df["image_correct"].values[i] > 1

\* C7: the returned 2x2 table has rows image correct / image incorrect and columns
\* sound correct / sound incorrect: [[a, b], [c, d]] with a = both high, b = image
\* high only, c = sound high only, d = neither.
C7_ContingencyTable ==
    McNemarCalled =>
        LET ct == last.ret[1]
            row(i) == <<ct.data[1][i], ct.data[2][i]>>
        IN  /\ ct.index = <<"Image Correct (Yes)", "Image Incorrect (No)">>
            /\ ct.columns = <<"Sound Correct (Yes)", "Sound Incorrect (No)">>
            /\ row(1) = <<Subjects(TRUE, TRUE), Subjects(TRUE, FALSE)>>
            /\ row(2) = <<Subjects(FALSE, TRUE), Subjects(FALSE, FALSE)>>

C7_Witness ==
    /\ McNemarCalled
    /\ Subjects(TRUE, TRUE) = 1
    /\ Subjects(TRUE, FALSE) = 2
    /\ Subjects(FALSE, TRUE) = 0
    /\ Subjects(FALSE, FALSE) = 1
    /\ last.ret[1].data = << <<1, 0>>, <<2, 1>> >>

\* C8: a subject is image_high exactly when the sum of its image columns is >= the
\* threshold, sound_high exactly when the sum of its sound columns is >= the
\* threshold, and the threshold is 3 when the caller omits it.
C8_ThresholdClassification ==
    McNemarCalled =>
        LET threshold == IF last.args[3] = <<>> THEN 3 ELSE last.args[3][1]
            total(questions, i) ==
                SumSeq([j \in 1..Len(questions) |-> df[questions[j]].values[i]])
        IN  \A i \in 1..NumRows(df) :
                /\ df["image_high"].values[i] = (total(last.args[1], i) >= threshold)
                /\ df["sound_high"].values[i] = (total(last.args[2], i) >= threshold)

C8_Witness ==
    /\ McNemarCalled
    /\ last.args[3] = <<>>
    /\ \E i \in 1..NumRows(df) :
          /\ df["image_correct"].values[i] = 3
          /\ df["image_high"].values[i] = TRUE
    /\ \E i \in 1..NumRows(df) :
          /\ df["image_correct"].values[i] = 2
          /\ df["image_high"].values[i] = FALSE

\* C9: g_test_pairwise takes (number of rows) / 3 as the expected count of each of
\* the two categories, however many categories the column holds, and 1 degree of
\* freedom.
C9_PairwiseExpected ==
    (PairwiseCalled /\ last.status = "returned") =>
        LET expected == ValuesOf(Printed(last.out, "Expected counts"))
            g == Printed(last.out, "G-statistic")
        IN  /\ Len(expected) = 2
            /\ \A i \in 1..2 : expected[i].num * 3 = NumRows(df) * expected[i].den
            /\ \A t \in DOMAIN g.terms : t[2].value.num * 3 = NumRows(df) * t[2].value.den
            /\ last.ret[1].dof = 1
            /\ last.ret[1].x = g

C9_Witness ==
    /\ PairwiseCalled
    /\ last.status = "returned"
    /\ Len(value_counts(df[last.args[1]]).index) = 2
    /\ NumRows(df) = 4

\* C10: g_test_pairwise with the two categories exchanged computes the same G
\* statistic and returns the same p-value.
C10_PairwiseSymmetric ==
    PairwiseCalled =>
        LET swapped == g_test_pairwise(df, last.args[1], last.args[3], last.args[2])
        IN  /\ swapped.status = last.status
            /\ swapped.ret = last.ret
            /\ (last.status = "returned") =>
                   Printed(swapped.out, "G-statistic") = Printed(last.out, "G-statistic")

C10_Witness ==
    /\ PairwiseCalled
    /\ last.status = "returned"
    /\ last.args[2] # last.args[3]
    /\ ValuesOf(Printed(last.out, "Observed counts")) = <<1, 3>>

CochranReturned == last.op = "perform_cochran_q_test" /\ last.status = "returned"

\* every subject gave the same answer to all the columns of the table
EveryRowConstant(t) ==
    \A i \in 1..NumRows(t) : \A c, d \in DOMAIN t : Cell(t, c, i) = Cell(t, d, i)

\* all the columns of the table hold the same values
ColumnsIdentical(t) ==
    \A c, d \in DOMAIN t : \A i \in 1..NumRows(t) : Cell(t, c, i) = Cell(t, d, i)

\* C11: on every binary table it accepts, perform_cochran_q_test returns a
\* Q >= 0, and Q = 0 when all the columns are identical.
C11_QNonNegativeZeroWhenIdentical ==
    CochranReturned =>
        /\ last.ret[1].den > 0
        /\ last.ret[1].num >= 0
        /\ ColumnsIdentical(df) => last.ret[1] = [num |-> 0, den |-> 1]

\* C11 as amended: Q is NaN (0/0) exactly when every subject's row is constant,
\* which includes the case of identical columns; in every other case Q is a
\* number >= 0.
C11_QNonNegativeOrNaN ==
    CochranReturned =>
        /\ IsNaN(last.ret[1]) <=> EveryRowConstant(df)
        /\ ColumnsIdentical(df) => IsNaN(last.ret[1])
        /\ ~IsNaN(last.ret[1]) => (last.ret[1].den > 0 /\ last.ret[1].num >= 0)

C11_Witness ==
    /\ CochranReturned
    /\ ColumnsIdentical(df)
    /\ \E i, j \in 1..NumRows(df) : Cell(df, "Q1", i) # Cell(df, "Q1", j)
    /\ IsNaN(last.ret[1])
    /\ Printed(last.out, "P-value").x = last.ret[1]

Chi2Called == last.op = "perform_chi2_test"

GTestCalled == last.op = "g_test"

\* the labels that occur in a column
DistinctLabels(values) == {values[i] : i \in 1..Len(values)}

Verdicts(out) == SelectSeq(out, LAMBDA line : line[1] = "verdict")

SaysSignificant(out) ==
    Printed(out, "verdict")[1] \in {"****** Significant difference ******",
                                    "****** Significant difference detected for"}

SaysNotSignificant(out) ==
    Printed(out, "verdict")[1] \in {"No significant difference ",
                                    "No significant difference detected for"}

\* the output ends with one verdict and the separator line after it, and holds
\* no other verdict
EndsWithOneVerdict(out) ==
    /\ Len(out) >= 2
    /\ Len(Verdicts(out)) = 1
    /\ out[Len(out) - 1][1] = "verdict"
    /\ out[Len(out)] = <<"separator", [char |-> "-", times |-> 50]>>
    /\ Cardinality({i \in 1..Len(out) : out[i][1] = "separator"}) = 1

\* C14: interpret_significance and the comparison that ends perform_chi2_test
\* say 'significant' exactly when p < 0.05 and 'not significant' otherwise, p =
\* 0.05 included; every call prints exactly one verdict and then the separator,
\* and so does every test that returns (Cochran's Q, chi-square, G, pairwise G),
\* about the p-value it prints.
C14_VerdictByThreshold ==
    /\ last.op \in {"interpret_significance", "Chi2Significance"} =>
           LET p == last.args[1].x
           IN  /\ Len(last.out) = 2
               /\ EndsWithOneVerdict(last.out)
               /\ SaysSignificant(last.out) <=> (p.den > 0 /\ p.num * 100 < 5 * p.den)
               /\ SaysNotSignificant(last.out) <=> ~SaysSignificant(last.out)
               /\ (p.den > 0 /\ p.num * 100 >= 5 * p.den) => SaysNotSignificant(last.out)
    /\ (last.op \in {"perform_cochran_q_test", "perform_chi2_test", "g_test", "g_test_pairwise"}
          /\ last.status = "returned") =>
           LET p == Printed(last.out, IF Chi2Called THEN "p-value" ELSE "P-value")
           IN  /\ EndsWithOneVerdict(last.out)
               /\ SaysSignificant(last.out) <=> (CompareP(p, Frac(5, 100)) = "lt")
               /\ SaysNotSignificant(last.out) <=> ~SaysSignificant(last.out)

C14_Witness ==
    /\ last.op = "interpret_significance"
    /\ last.args[1].x = [num |-> 1, den |-> 20]
    /\ SaysNotSignificant(last.out)

C16_ReturnsStatisticAndPValue ==
    (last.op \in {"g_test", "g_test_pairwise"} /\ last.status = "returned") =>
        last.ret = <<Printed(last.out, "G-statistic"), Printed(last.out, "P-value")>>

\* C17: a calculate_mcnemar_test call leaves in the caller's table the columns
\* image_high and sound_high, equal to the classification of each subject (the
\* sum of its listed columns before the call >= the threshold), and leaves
\* every column that is not one of the four derived names as it was.
C17_McNemarWritesCallersTable ==
    [][(last'.op = "calculate_mcnemar_test") =>
          LET threshold == IF last'.args[3] = <<>> THEN 3 ELSE last'.args[3][1]
              total(questions, i) ==
                  SumSeq([j \in 1..Len(questions) |-> Cell(df, questions[j], i)])
          IN  /\ DOMAIN df' = DOMAIN df \cup DerivedColumns
              /\ \A i \in 1..NumRows(df) :
                    /\ df'["image_high"].values[i] = (total(last'.args[1], i) >= threshold)
                    /\ df'["sound_high"].values[i] = (total(last'.args[2], i) >= threshold)
              /\ \A c \in DOMAIN df \ DerivedColumns : df'[c] = df[c]]_vars

C17_Witness ==
    /\ McNemarCalled
    /\ \A c \in DOMAIN df0 : df[c] = df0[c]
    /\ DOMAIN df = DOMAIN df0 \cup DerivedColumns
    /\ \E i, j \in 1..NumRows(df) :
          df["image_high"].values[i] /\ ~df["image_high"].values[j]
    /\ \E i \in 1..NumRows(df) : df["sound_high"].values[i]

\* C18: calculate_mcnemar_test called again on the table it has just left, with
\* the same column lists and threshold, returns the same contingency table,
\* statistic and p-value and leaves the table as it is.
C18_McNemarIdempotent ==
    McNemarCalled =>
        LET again == calculate_mcnemar_test(df, last.args[1], last.args[2], last.args[3])
        IN  /\ again.status = last.status
            /\ again.ret = last.ret
            /\ again.table = df

C18_Witness ==
    /\ McNemarCalled
    /\ Len(last.args[1]) = 2
    /\ \E i \in 1..NumRows(df) : df["image_correct"].values[i] = 3
    /\ Subjects(TRUE, FALSE) = 2
    /\ Subjects(FALSE, TRUE) = 0
    /\ calculate_mcnemar_test(df, last.args[1], last.args[2], last.args[3]).table = df

\* C19: a perform_cochran_q_test, perform_chi2_test, g_test or g_test_pairwise
\* call, whether it returns or raises, leaves the caller's table as it was: the
\* same columns, the same cells.
C19_ReadOnlyTests ==
    [][(last'.op \in {"perform_cochran_q_test", "perform_chi2_test", "g_test",
                      "g_test_pairwise"}) => df' = df]_vars

C19_Witness ==
    /\ last.op = "perform_cochran_q_test"
    /\ last.status = "returned"
    /\ df = df0
    /\ \E i \in 1..NumRows(df) : Cell(df, "Q1", i) = 1

GCalled == last.op \in {"g_test", "g_test_pairwise"} /\ last.status = "returned"

\* the observed and the expected vectors a G-test printed
PrintedObserved == Printed(last.out, IF GTestCalled THEN "Observed" ELSE "Observed counts")

PrintedExpected == Printed(last.out, IF GTestCalled THEN "Expected" ELSE "Expected counts")

\* C20: g_test and g_test_pairwise add epsilon = 1e-10 to every observed and
\* every expected count before the logarithm, so that G is a finite number even
\* when an observed count is 0.
C20_EpsilonAdded ==
    GCalled =>
        LET g == Printed(last.out, "G-statistic")
        IN  /\ \A i \in 1..Len(PrintedObserved) : PrintedObserved[i].epsilon = "1e-10"
            /\ \A i \in 1..Len(PrintedExpected) : PrintedExpected[i].epsilon = "1e-10"
            /\ DOMAIN g.terms
                 = {<<PrintedObserved[i], PrintedExpected[i]>> : i \in 1..Len(PrintedObserved)}
            /\ GIsFinite(g)

C20_Witness ==
    /\ GCalled
    /\ \E i \in 1..Len(PrintedObserved) : PrintedObserved[i].value = 0
    /\ GIsFinite(Printed(last.out, "G-statistic"))
    /\ GSign(Printed(last.out, "G-statistic")) = 1

OmnibusCalled == Chi2Called \/ GTestCalled

\* the observed and the expected vector of an omnibus test, and its degrees of
\* freedom
OmnibusObserved ==
    IF Chi2Called THEN Printed(last.out, "Chi-square statistic").table[1]
    ELSE ValuesOf(Printed(last.out, "Observed"))

OmnibusExpected ==
    IF Chi2Called THEN Printed(last.out, "Chi-square statistic").table[2]
    ELSE ValuesOf(Printed(last.out, "Expected"))

OmnibusDof ==
    IF Chi2Called THEN Printed(last.out, "Degrees of freedom")
    ELSE Printed(last.out, "P-value").dof

\* the categories a column declares and that occur nowhere in it
AbsentCategories(column) ==
    IF column.dtype = "category"
    THEN {column.categories[i] : i \in 1..Len(column.categories)}
            \ DistinctLabels(column.values)
    ELSE {}

\* C21: perform_chi2_test and g_test count the labels that occur at least once
\* in the column and nothing else: no observed count is 0, the number of
\* categories m is the number of occurring labels, the expected frequency is
\* total / m and the degrees of freedom are m - 1.
C21_UniverseIsOccurringLabels ==
    OmnibusCalled =>
        LET m == Cardinality(DistinctLabels(df[last.args[1]].values))
        IN  /\ Len(OmnibusObserved) = m
            /\ \A i \in 1..Len(OmnibusObserved) : OmnibusObserved[i] > 0
            /\ \A i \in 1..Len(OmnibusExpected) :
                   OmnibusExpected[i] = Frac(NumRows(df), m)
            /\ OmnibusDof = m - 1

\* C21 as amended: the same for a column of plain labels; for a column of
\* categorical dtype the tests count every declared category, a category that
\* occurs nowhere with count 0: it is one of the m categories that fix the
\* expected frequency and it adds a degree of freedom.
C21_UniverseByDtype ==
    OmnibusCalled =>
        LET column == df[last.args[1]]
            universe == DistinctLabels(column.values) \cup AbsentCategories(column)
            m == Cardinality(universe)
        IN  /\ Len(OmnibusObserved) = m
            /\ \A c \in 0..NumRows(df) :
                   Cardinality({i \in 1..m : OmnibusObserved[i] = c})
                     = Cardinality({v \in universe : Count(column.values, v) = c})
            /\ \A i \in 1..Len(OmnibusExpected) :
                   OmnibusExpected[i] = Frac(NumRows(df), m)
            /\ OmnibusDof = m - 1

C21_Witness ==
    /\ GTestCalled
    /\ Cardinality(AbsentCategories(df[last.args[1]])) = 1
    /\ \E i \in 1..3 : OmnibusObserved[i] = 0
    /\ OmnibusDof = 2

\* C22: the Q returned by perform_cochran_q_test is the closed form
\* (k-1) * (k * sum Cj^2 - T^2) / (k * T - sum Ri^2), Cj the column sums, Ri
\* the row sums, T the grand total (0/0 read as NaN); for the rows
\* [[1,1,1,0,0,0],[1,0,1,0,1,0]] it is 20/3 = 6.667, the value of the formula.
C22_CochranClosedForm ==
    CochranReturned =>
        LET cols == Columns(df)
            k == Len(cols)
            n == NumRows(df)
            C(j) == Cardinality({i \in 1..n : Cell(df, cols[j], i) = 1})
            R(i) == Cardinality({j \in 1..k : Cell(df, cols[j], i) = 1})
            T == SumSeq([j \in 1..k |-> C(j)])
            sumC2 == SumSeq([j \in 1..k |-> C(j) * C(j)])
            sumR2 == SumSeq([i \in 1..n |-> R(i) * R(i)])
            Q == last.ret[1]
        IN  /\ T = SumSeq([i \in 1..n |-> R(i)])
            /\ (k * T - sumR2 # 0) =>
                   /\ Q.den > 0
                   /\ Q.num * (k * T - sumR2) = (k - 1) * (k * sumC2 - T * T) * Q.den
            /\ (k * T - sumR2 = 0) => (k * sumC2 - T * T = 0 /\ IsNaN(Q))
            /\ (df = CochranScenario) => Q = [num |-> 20, den |-> 3]

C22_Witness ==
    /\ CochranReturned
    /\ df = CochranScenario
    /\ last.ret[1] = [num |-> 20, den |-> 3]
    /\ Printed(last.out, "P-value").dof = 5

\* C26: the four cells a, b, c, d of the contingency table of
\* calculate_mcnemar_test count each subject exactly once: none is negative and
\* a + b + c + d is the number of rows of the table, which the call keeps.
C26_CellsSumToRows ==
    McNemarCalled =>
        LET data == last.ret[1].data
        IN  /\ \A j \in 1..2 : \A i \in 1..2 : data[j][i] >= 0
            /\ data[1][1] + data[2][1] + data[1][2] + data[2][2] = NumRows(df)
            /\ NumRows(df) = NumRows(df0)

C26_Witness ==
    /\ McNemarCalled
    /\ NumRows(df) = 4
    /\ \A j \in 1..2 : \A i \in 1..2 : last.ret[1].data[j][i] = 1

\* C27: calculate_mcnemar_test with the image list and the sound list exchanged
\* (same table, same threshold) returns the transposed counts, b and c
\* exchanged and a and d kept, with the same statistic and the same p-value.
C27_SwapTransposes ==
    McNemarCalled =>
        LET swapped == calculate_mcnemar_test(df, last.args[2], last.args[1], last.args[3])
            t == last.ret[1].data
            s == swapped.ret[1].data
        IN  /\ swapped.status = last.status
            /\ \A j \in 1..2 : \A i \in 1..2 : s[j][i] = t[i][j]
            /\ swapped.ret[2] = last.ret[2]
            /\ swapped.ret[3] = last.ret[3]

C27_Witness ==
    /\ McNemarCalled
    /\ last.args[1] # last.args[2]
    /\ last.ret[1].data[2][1] = 2
    /\ last.ret[1].data[1][2] = 1
    /\ calculate_mcnemar_test(df, last.args[2], last.args[1], last.args[3]).ret[1].data[2][1] = 1
    /\ calculate_mcnemar_test(df, last.args[2], last.args[1], last.args[3]).ret[1].data[1][2] = 2

GComputed == last.op = "g_statistic"

\* (o - e)^2 / (o * e) for a term o * log(o / e) of G.  With x = o / e the
\* derivative of (o + t) * log((o + t) / (e + t)) in t is log(y) + 1 - y at
\* y = (o + t) / (e + t), which lies between x and 1; its size y - 1 - log(y)
\* is largest at y = x and at most (x - 1)^2 / x there (log(x) >= 1 - 1 / x).
\* Adding epsilon therefore changes the term by at most epsilon times this.
TermSensitivity(t) ==
    LET o == Frac(t[1].value, 1)
        e == t[2].value
    IN  FDiv(FMul(FSub(o, e), FSub(o, e)), FMul(o, e))

\* 2 * m * s * 10^-n < 10^-6, in integers
BelowTolerance(m, s, n) ==
    IF n >= 6 THEN FLess(FMul(Frac(2 * m, 1), s), Frac(Pow(10, n - 6), 1))
    ELSE FLess(FMul(Frac(2 * m * Pow(10, 6 - n), 1), s), Frac(1, 1))

LoaderCalled == last.op = "load_ordinal_columns"

\* C24: load_ordinal_columns first runs the script.  When the script exits with
\* failure CalledProcessError is raised and the JSON file is not opened, even if
\* the script has written it; when the script succeeds and the JSON file does
\* not exist FileNotFoundError is raised; the dictionary parsed from the file as
\* the script left it is returned exactly when the script succeeded and the file
\* holds JSON.
C24_ScriptThenJson ==
    LoaderCalled =>
        LET script  == last.args[1]
            content == env.files[last.args[2]]
        IN  /\ last.out[1] = <<"subprocess.run", ScriptPath>>
            /\ script.writes # <<>> => env.files[script.writes[1]] = script.writes[2]
            /\ script.returncode # 0 =>
                   /\ last.status = "CalledProcessError"
                   /\ ~HasPrinted(last.out, "open")
                   /\ last.ret = <<>>
            /\ (script.returncode = 0 /\ content = NoFile) =>
                   /\ last.status = "FileNotFoundError"
                   /\ last.ret = <<>>
            /\ last.status = "returned" <=>
                   (script.returncode = 0 /\ content # NoFile /\ content[1] = "json")
            /\ last.status = "returned" =>
                   /\ last.ret = <<content[2]>>
                   /\ last.out[3] = <<"open", last.args[2]>>

C24_Witness ==
    /\ LoaderCalled
    /\ last.args[1].returncode = 1
    /\ last.args[1].writes = <<last.args[2], <<"json", OrdinalColumns>> >>
    /\ env.files[last.args[2]] = <<"json", OrdinalColumns>>
    /\ last.status = "CalledProcessError"
    /\ ~HasPrinted(last.out, "open")

AnswerMatrixReturned == last.op = "create_answer_matrix" /\ last.status = "returned"

\* the column named name of a frame
ColumnNamed(cols, name) == cols[CHOOSE j \in 1..Len(cols) : cols[j].name = name]

\* a column of the frame returned is the 0/1 marking of the column of the same
\* name of the table against the i-th correct answer
MarksQuestion(matrix, i) ==
    /\ QName(i) \in ColumnNames(matrix)
    /\ LET marked  == ColumnNamed(matrix, QName(i)).values
           answers == ColumnNamed(df, QName(i)).values
       IN  /\ Len(marked) = Len(answers)
           /\ \A r \in 1..Len(answers) :
                  marked[r] = (IF answers[r] = last.args[1][i] THEN 1 ELSE 0)

IsNumberEntry(s) ==
    \E lead \in 0..Len(s), trail \in 0..Len(s) :
        /\ lead + trail < Len(s)
        /\ \A i \in 1..lead : s[i] = " "
        /\ \A i \in (Len(s) - trail + 1)..Len(s) : s[i] = " "
        /\ LET core == SubSeq(s, lead + 1, Len(s) - trail)
               body == IF Head(core) = "-" THEN Tail(core) ELSE core
           IN  /\ body # <<>> /\ body # <<".">>
               /\ \A i \in 1..Len(body) : body[i] = "1" \/ body[i] = "."
               /\ \A i, j \in 1..Len(body) : (body[i] = "." /\ body[j] = ".") => i = j

\* C28: in get_user_input every entry that is not a number leaves user_number
\* as it was, prints the error message and leaves the function at the prompt;
\* the function returns only on an entry that is a number, the first such
\* entry, with user_number set to its value; nothing is entered after the
\* return.
C28_ReturnsOnFirstNumber ==
    [][ /\ env.pc = "prompt"
        /\ last'.op = "get_user_input"
        /\ LET s == last'.args[1]
           IN  IF IsNumberEntry(s)
               THEN /\ env'.pc = "returned"
                    /\ env'.user_number = Number(ParseFloat(s))
                    /\ ~HasPrinted(last'.out, "print")
               ELSE /\ env' = env
                    /\ last'.status = "ValueError"
                    /\ Printed(last'.out, "print") = "That's not a valid number. Please try again."
      ]_vars

C28_Witness ==
    /\ env.pc = "returned"
    /\ last.args = << <<"-", ".", "1">> >>
    /\ env.user_number = Number([num |-> -1, den |-> 10])

====
